---- MODULE Spec2Model ----
(***************************************************************************)
(* Verification model of esloss-core's format-translation layer:           *)
(*   core/parsers.py : parse_assets, parse_vulnerability, parse_calculation *)
(*   core/input.py   : assets_to_dataframe, assemble_calculation_input      *)
(*                                                                         *)
(* Strings are modelled as sequences of tokens so that the string          *)
(* operations of the code (str.replace, str.split, Path.name, "+") are     *)
(* computed and not assumed.  Four specifications share the module:        *)
(*   SpecJob    - a job configuration object and the calls made on it      *)
(*   SpecVuln   - parse_vulnerability on a vulnerability document          *)
(*   SpecDecode - parse_assets and parse_assets on its own output          *)
(*   SpecAssets - parse_assets / store / assets_to_dataframe               *)
(***************************************************************************)
EXTENDS Integers, Sequences, FiniteSets, TLC

VARIABLES
    \* ---- SpecJob
    job,        \* the ConfigParser object shared by all calls
    orig,       \* the configuration as first handed over
    pre,        \* the configuration at the start of the last call
    op,         \* the last operation called
    outcome,    \* "ok" or the exception the last call raised
    bundle,     \* list returned by assemble_calculation_input
    job_ini,    \* the configuration serialized into job.ini
    calc,       \* dict returned by parse_calculation
    calls,      \* number of calls made so far
    \* ---- SpecVuln
    doc,        \* the vulnerabilityFunction elements of the document
    vmodel,     \* model['vulnerabilityfunctions'] as returned
    vstage,     \* "doc" before, "parsed" after parse_vulnerability
    \* ---- SpecAssets
    csv,        \* the asset table read by pd.read_csv
    tagnames,   \* the declared tag names
    parsed,     \* parse_assets(csv, tagnames)
    reparsed,   \* parse_assets(parsed, tagnames)
    assets,     \* the stored Asset objects
    encoded,    \* assets_to_dataframe(assets)
    astage      \* position in the decode / store / encode pipeline

jobVars == <<job, orig, pre, op, outcome, bundle, job_ini, calc, calls>>
vulnVars == <<doc, vmodel, vstage>>
assetVars == <<csv, tagnames, parsed, reparsed, assets, encoded, astage>>
vars == <<jobVars, vulnVars, assetVars>>

\* ------------------------------------------------------------------------
\* Bounds of the model
\* ------------------------------------------------------------------------
MaxEntries == 2
MaxCalls == 2
MaxTokens == 2
MaxFuns == 2
MaxAssets == 2
MaxCols == 2

\* ------------------------------------------------------------------------
\* Generic helpers
\* ------------------------------------------------------------------------
Range(s) == {s[i] : i \in 1..Len(s)}

\* all sequences over S of length <= n
RECURSIVE SeqsUpTo(_, _)
SeqsUpTo(S, n) ==
    IF n = 0 THEN {<<>>}
    ELSE LET shorter == SeqsUpTo(S, n - 1)
         IN shorter \cup {Append(s, x) : s \in {t \in shorter : Len(t) = n - 1}, x \in S}

\* the sections of at most n entries drawn from Pool, no key twice
Sections(Pool, n) ==
    {s \in SeqsUpTo(Pool, n) : \A i, j \in 1..Len(s) : i # j => s[i].k # s[j].k}

None == <<"None">>

\* ------------------------------------------------------------------------
\* Strings as token sequences
\* ------------------------------------------------------------------------
exposure_file == <<"exposure", "_file">>
calculation_mode == <<"calculation_mode">>
description == <<"description">>
aggregate_by == <<"aggregate_by">>
scenario_risk == <<"scenario_risk">>
scenario_damage == <<"scenario_damage">>

structural_vulnerability_file == <<"structural_vulnerability", "_file">>
contents_vulnerability_file == <<"contents_vulnerability", "_file">>
occupants_vulnerability_file == <<"occupants_vulnerability", "_file">>
nonstructural_vulnerability_file == <<"nonstructural_vulnerability", "_file">>
business_interruption_vulnerability_file == <<"business_interruption_vulnerability", "_file">>
structural_fragility_file == <<"structural_fragility", "_file">>
contents_fragility_file == <<"contents_fragility", "_file">>
nonstructural_fragility_file == <<"nonstructural_fragility", "_file">>
business_interruption_fragility_file == <<"business_interruption_fragility", "_file">>

VULNERABILITY_FK_MAPPING ==
    (structural_vulnerability_file :> "_structuralvulnerabilitymodel_oid") @@
    (contents_vulnerability_file :> "_contentsvulnerabilitymodel_oid") @@
    (occupants_vulnerability_file :> "_occupantsvulnerabilitymodel_oid") @@
    (nonstructural_vulnerability_file :> "_nonstructuralvulnerabilitymodel_oid") @@
    (business_interruption_vulnerability_file :> "_businessinterruptionvulnerabilitymodel_oid")

FRAGILITY_FK_MAPPING ==
    (structural_fragility_file :> "_structuralfragilitymodel_oid") @@
    (contents_fragility_file :> "_contentsfragilitymodel_oid") @@
    (nonstructural_fragility_file :> "_nonstructuralfragilitymodel_oid") @@
    (business_interruption_fragility_file :> "_businessinterruptionfragilitymodel_oid")

\* k.replace('_file', ''): every occurrence is removed, not only a suffix
ReplaceFile(k) == SelectSeq(k, LAMBDA t : t # "_file")

\* "{}.xml".format(k.replace('_file', ''))
XmlName(k) == ReplaceFile(k) \o <<".xml">>

\* Path(v).name: what follows the last "/"
RECURSIVE PathName(_)
PathName(v) ==
    IF \E i \in 1..Len(v) : v[i] = "/"
    THEN PathName(Tail(v))
    ELSE v

EndsInFile(k) == Len(k) > 0 /\ k[Len(k)] = "_file"

\* ------------------------------------------------------------------------
\* ConfigParser: a mapping from section names to ordered key/value entries
\* (configurations without entries in the DEFAULT section)
\* ------------------------------------------------------------------------
HasOption(sec, k) == \E i \in 1..Len(sec) : sec[i].k = k

GetOption(sec, k) == sec[CHOOSE i \in 1..Len(sec) : sec[i].k = k].v

\* job[section][k] = v on an existing key keeps the key's position
SetOption(cfg, s, k, v) ==
    [cfg EXCEPT ![s] = [i \in 1..Len(cfg[s]) |->
        IF cfg[s][i].k = k THEN [k |-> k, v |-> v] ELSE cfg[s][i]]]

Keys(sec) == [i \in 1..Len(sec) |-> sec[i].k]

\* ------------------------------------------------------------------------
\* The collaborators of assemble_calculation_input: what the session holds
\* and which hazard files exist on disk
\* ------------------------------------------------------------------------
AssetCollections == {<<"1">>}
VulnerabilityModels == {<<"7">>, <<"8">>}
HazardFiles == {<<"data", "/", "gmf.csv">>, <<"sites.csv">>}

ExposureXml == <<"exposure", ".xml">>
AssetsCsvName == <<"exposure_assets.csv">>
JobIni == <<"job.ini">>

File(name, kind, src) == [name |-> name, kind |-> kind, src |-> src]

Raised(st, exc) == [st EXCEPT !.outcome = exc, !.files = <<>>]

\* input.py 118-123: the exposure files, and exposure_file rewritten
ExposureStep(j) ==
    LET st == [job |-> j, files |-> <<>>, outcome |-> "ok"]
    IN IF "exposure" \notin DOMAIN j \/ ~HasOption(j["exposure"], exposure_file)
       THEN Raised(st, "KeyError")
       ELSE LET oid == GetOption(j["exposure"], exposure_file)
            IN IF oid \notin AssetCollections
               THEN Raised(st, "ReferenceError")
               ELSE [job |-> SetOption(j, "exposure", exposure_file, ExposureXml),
                     files |-> <<File(ExposureXml, "exposure_xml", oid),
                                 File(AssetsCsvName, "exposure_csv", oid)>>,
                     outcome |-> "ok"]

\* input.py 125-129: one xml per entry of the vulnerability section; keys is
\* the snapshot of the section's keys taken when the loop starts
RECURSIVE VulnerabilityLoop(_, _, _)
VulnerabilityLoop(st, keys, i) ==
    IF i > Len(keys) THEN st
    ELSE LET k == keys[i]
             v == GetOption(st.job["vulnerability"], k)
         IN IF v \notin VulnerabilityModels
            THEN Raised(st, "ReferenceError")
            ELSE VulnerabilityLoop(
                    [job |-> SetOption(st.job, "vulnerability", k, XmlName(k)),
                     files |-> Append(st.files, File(XmlName(k), "vulnerability_xml", v)),
                     outcome |-> "ok"],
                    keys, i + 1)

\* input.py 131-136: the hazard files are read and passed through
RECURSIVE HazardLoop(_, _, _)
HazardLoop(st, keys, i) ==
    IF i > Len(keys) THEN st
    ELSE LET k == keys[i]
             v == GetOption(st.job["hazard"], k)
         IN IF v \notin HazardFiles
            THEN Raised(st, "FileNotFoundError")
            ELSE HazardLoop(
                    [job |-> SetOption(st.job, "hazard", k, PathName(v)),
                     files |-> Append(st.files, File(PathName(v), "hazard", v)),
                     outcome |-> "ok"],
                    keys, i + 1)

\* input.py 145-150: the configuration as written to job.ini
create_job_file(settings) == settings

\* the hazard files collected before the vulnerability files
assemble_hazard_first(j) ==
    LET s1 == ExposureStep(j)
    IN IF s1.outcome # "ok" THEN s1
       ELSE IF "hazard" \notin DOMAIN s1.job THEN Raised(s1, "KeyError")
       ELSE LET s2 == HazardLoop(s1, Keys(s1.job["hazard"]), 1)
            IN IF s2.outcome # "ok" THEN s2
               ELSE IF "vulnerability" \notin DOMAIN s2.job THEN Raised(s2, "KeyError")
               ELSE LET s3 == VulnerabilityLoop(s2, Keys(s2.job["vulnerability"]), 1)
                    IN IF s3.outcome # "ok" THEN s3
                       ELSE [s3 EXCEPT !.files =
                                Append(@, File(JobIni, "job", <<>>))]

\* input.py 113-142
assemble_calculation_input(j) ==
    LET s1 == ExposureStep(j)
    IN IF s1.outcome # "ok" THEN s1
       ELSE IF "vulnerability" \notin DOMAIN s1.job THEN Raised(s1, "KeyError")
       ELSE LET s2 == VulnerabilityLoop(s1, Keys(s1.job["vulnerability"]), 1)
            IN IF s2.outcome # "ok" THEN s2
               ELSE IF "hazard" \notin DOMAIN s2.job THEN Raised(s2, "KeyError")
               ELSE LET s3 == HazardLoop(s2, Keys(s2.job["hazard"]), 1)
                    IN IF s3.outcome # "ok" THEN s3
                       ELSE [s3 EXCEPT !.files =
                                Append(@, File(JobIni, "job", <<>>))]

\* ------------------------------------------------------------------------
\* parse_calculation
\* ------------------------------------------------------------------------
RemovedSections == {"vulnerability", "exposure", "hazard", "fragility"}

\* the hazard section left in the copy
RemoveSectionsButHazard(j) ==
    [s \in DOMAIN j \ {"vulnerability", "exposure", "fragility"} |-> j[s]]

\* parsers.py 150-153: a copy of the job without the four file sections
RemoveSections(j) == [s \in DOMAIN j \ RemovedSections |-> j[s]]

\* the order in which the sections of a configuration are visited
SectionOrder == <<"general", "calculation", "exposure", "vulnerability", "fragility", "hazard">>

\* the three keys parse_calculation pops by their bare name (parsers.py
\* 158-160); flatten_config leaves them unqualified
Unqualified == {calculation_mode, description, aggregate_by}

Dotted(s, k) == <<s, ".">> \o k

FlatName(s, k) == IF k \in Unqualified THEN k ELSE Dotted(s, k)

\* core.utils.flatten_config: every key of every section under its dotted
\* section.key name; of a bare name met in two sections the later one stays
flatten_config(cfg) ==
    LET names == UNION {{FlatName(s, cfg[s][i].k) : i \in 1..Len(cfg[s])} : s \in DOMAIN cfg}
        pos(s) == CHOOSE n \in 1..Len(SectionOrder) : SectionOrder[n] = s
        holders(name) == {s \in DOMAIN cfg :
                            \E i \in 1..Len(cfg[s]) : FlatName(s, cfg[s][i].k) = name}
        last(name) == CHOOSE s \in holders(name) :
                            \A t \in holders(name) : pos(t) <= pos(s)
        val(name) == LET s == last(name)
                         i == CHOOSE n \in 1..Len(cfg[s]) : FlatName(s, cfg[s][n].k) = name
                     IN cfg[s][i].v
    IN [name \in names |-> val(name)]

\* dict.pop(key): the mapping without the key
Without(f, key) == [x \in DOMAIN f \ {key} |-> f[x]]

PopOr(f, key, default) == IF key \in DOMAIN f THEN f[key] ELSE default

NoCalc == [calculation_mode |-> None, description |-> None, aggregateby |-> None,
           config |-> <<>>, fk |-> <<>>, assetcollection_oid |-> None]

\* the last entry of the section skipped
ForeignKeysButLast(sec, mapping) ==
    [f \in {mapping[sec[i].k] : i \in 1..(Len(sec) - 1)} |->
        sec[CHOOSE i \in 1..Len(sec) : mapping[sec[i].k] = f].v]

\* parsers.py 164-170: the foreign keys of one section through its mapping
ForeignKeys(sec, mapping) ==
    [f \in {mapping[sec[i].k] : i \in 1..Len(sec)} |->
        sec[CHOOSE i \in 1..Len(sec) : mapping[sec[i].k] = f].v]

ModeSection(mode) ==
    IF mode = scenario_risk THEN "vulnerability"
    ELSE IF mode = scenario_damage THEN "fragility"
    ELSE "none"

ModeMapping(mode) ==
    IF mode = scenario_risk THEN VULNERABILITY_FK_MAPPING ELSE FRAGILITY_FK_MAPPING

\* parsers.py 148-174
parse_calculation(j) ==
    LET flat_job == flatten_config(RemoveSections(j))
        failed(exc) == [outcome |-> exc, calc |-> NoCalc]
    IN IF calculation_mode \notin DOMAIN flat_job THEN failed("KeyError")
       ELSE
       LET mode == flat_job[calculation_mode]
           config == Without(Without(Without(flat_job, calculation_mode),
                                     description), aggregate_by)
           sname == ModeSection(mode)
       IN IF sname # "none" /\ sname \notin DOMAIN j THEN failed("KeyError")
          ELSE IF sname # "none" /\
                  \E i \in 1..Len(j[sname]) : j[sname][i].k \notin DOMAIN ModeMapping(mode)
          THEN failed("KeyError")
          ELSE IF "exposure" \notin DOMAIN j \/ ~HasOption(j["exposure"], exposure_file)
          THEN failed("KeyError")
          ELSE [outcome |-> "ok",
                calc |-> [calculation_mode |-> mode,
                          description |-> PopOr(flat_job, description, None),
                          aggregateby |-> PopOr(flat_job, aggregate_by, None),
                          config |-> config,
                          fk |-> IF sname = "none" THEN <<>>
                                 ELSE ForeignKeys(j[sname], ModeMapping(mode)),
                          assetcollection_oid |-> GetOption(j["exposure"], exposure_file)]]

\* ------------------------------------------------------------------------
\* SpecJob: the calls made on one job configuration object
\* ------------------------------------------------------------------------
Entry(k, v) == [k |-> k, v |-> v]

Absent == <<Entry(<<"absent">>, <<>>)>>

MakeConfig(sel) == [s \in {n \in DOMAIN sel : sel[n] # Absent} |-> sel[s]]

ExposureOptions ==
    {Absent, <<Entry(exposure_file, <<"1">>)>>, <<Entry(exposure_file, <<"9">>)>>}

VulnerabilityPool ==
    {Entry(structural_vulnerability_file, <<"7">>),
     Entry(structural_vulnerability_file, <<"9">>),
     Entry(contents_vulnerability_file, <<"8">>),
     Entry(<<"my", "_file", "_model", "_file">>, <<"7">>)}

FragilityOptions ==
    {Absent, <<Entry(structural_fragility_file, <<"3">>)>>}

HazardPool ==
    {Entry(<<"gmfs", "_file">>, <<"data", "/", "gmf.csv">>),
     Entry(<<"gmfs", "_file">>, <<"missing.csv">>),
     Entry(<<"sites_csv">>, <<"sites.csv">>)}

GeneralModes == {scenario_risk, <<"classical_risk">>}

GeneralOptions ==
    {m \o d :
        m \in {<<>>} \cup {<<Entry(calculation_mode, x)>> : x \in GeneralModes},
        d \in {<<>>, <<Entry(description, <<"test run">>), Entry(<<"region">>, <<"ch">>)>>}}

CalculationOptions ==
    {Absent,
     <<Entry(aggregate_by, <<"canton">>), Entry(<<"region">>, <<"de">>)>>,
     <<Entry(calculation_mode, scenario_damage)>>}

JobConfigs ==
    {MakeConfig([general |-> g, calculation |-> c, exposure |-> e,
                 vulnerability |-> v, fragility |-> f, hazard |-> h]) :
        g \in GeneralOptions, c \in CalculationOptions, e \in ExposureOptions,
        v \in {Absent} \cup Sections(VulnerabilityPool, MaxEntries),
        f \in FragilityOptions,
        h \in {Absent} \cup Sections(HazardPool, MaxEntries)}

VulnIdle == doc = <<>> /\ vmodel = <<>> /\ vstage = "idle"

AssetsIdle ==
    /\ csv = <<>> /\ tagnames = <<>> /\ parsed = <<>> /\ reparsed = <<>>
    /\ assets = <<>> /\ encoded = <<>> /\ astage = "idle"

JobIdle ==
    /\ job = <<>> /\ orig = <<>> /\ pre = <<>> /\ op = "none" /\ outcome = "none"
    /\ bundle = <<>> /\ job_ini = <<>> /\ calc = NoCalc /\ calls = 0

JobInit ==
    /\ job \in JobConfigs
    /\ orig = job
    /\ pre = job
    /\ op = "none"
    /\ outcome = "none"
    /\ bundle = <<>>
    /\ job_ini = <<>>
    /\ calc = NoCalc
    /\ calls = 0
    /\ VulnIdle
    /\ AssetsIdle

\* a call of assemble_calculation_input(job, session)
Assemble ==
    /\ calls < MaxCalls
    /\ LET r == assemble_calculation_input(job)
       IN /\ job' = r.job
          /\ outcome' = r.outcome
          /\ bundle' = r.files
          /\ job_ini' = IF r.outcome = "ok" THEN create_job_file(r.job) ELSE <<>>
    /\ pre' = job
    /\ op' = "assemble"
    /\ calc' = NoCalc
    /\ calls' = calls + 1
    /\ UNCHANGED <<orig, vulnVars, assetVars>>

\* a call of parse_calculation(job)
Parse ==
    /\ calls < MaxCalls
    /\ LET r == parse_calculation(job)
       IN /\ outcome' = r.outcome
          /\ calc' = r.calc
    /\ pre' = job
    /\ op' = "parse"
    /\ bundle' = <<>>
    /\ job_ini' = <<>>
    /\ calls' = calls + 1
    /\ UNCHANGED <<job, orig, vulnVars, assetVars>>

JobNext == Assemble \/ Parse

SpecJob == JobInit /\ [][JobNext]_vars

\* ------------------------------------------------------------------------
\* Claims checked under SpecJob
\* ------------------------------------------------------------------------
BundleNames == [i \in 1..Len(bundle) |-> bundle[i].name]

AssembleOk == op = "assemble" /\ outcome = "ok"

ParseOk == op = "parse" /\ outcome = "ok"

\* C1: a successful assemble_calculation_input returns exposure.xml, the
\* asset csv, one xml per vulnerability entry in section order, one base file
\* name per hazard entry in section order and job.ini last: 2 + n + m + 1
\* files
C1_BundleOrder ==
    AssembleOk =>
        LET vs == pre["vulnerability"]
            hz == pre["hazard"]
            n == Len(vs)
            m == Len(hz)
        IN /\ Len(bundle) = 2 + n + m + 1
           /\ BundleNames[1] = <<"exposure", ".xml">>
           /\ BundleNames[2] = <<"exposure_assets.csv">>
           /\ \A i \in 1..n : BundleNames[2 + i] = XmlName(vs[i].k)
           /\ \A i \in 1..m : BundleNames[2 + n + i] = PathName(hz[i].v)
           /\ BundleNames[Len(bundle)] = <<"job.ini">>

\* the spec's example: two vulnerability references and one hazard reference
C1_Witness ==
    /\ AssembleOk
    /\ Len(pre["vulnerability"]) = 2
    /\ pre["vulnerability"][1].k = contents_vulnerability_file
    /\ Len(pre["hazard"]) = 1
    /\ BundleNames = <<ExposureXml, AssetsCsvName,
                       <<"contents_vulnerability", ".xml">>,
                       <<"structural_vulnerability", ".xml">>,
                       <<"gmf.csv">>, JobIni>>

FileSections == {"exposure", "vulnerability", "fragility", "hazard"}

\* C2: after a successful assemble_calculation_input every *_file entry of
\* the exposure, vulnerability, fragility and hazard sections, as serialized
\* into job.ini, names an artifact of the returned bundle
C2_FileEntriesRewritten ==
    AssembleOk =>
        /\ job_ini = job
        /\ \A s \in DOMAIN job_ini \cap FileSections :
             \A i \in 1..Len(job_ini[s]) :
                EndsInFile(job_ini[s][i].k) => job_ini[s][i].v \in Range(BundleNames)

FkFields(mapping) == {mapping[k] : k \in DOMAIN mapping}

FkAttached(sec, mapping) ==
    \A i \in 1..Len(sec) :
        /\ mapping[sec[i].k] \in DOMAIN calc.fk
        /\ calc.fk[mapping[sec[i].k]] = sec[i].v

\* C4: parse_calculation attaches the foreign keys of the vulnerability
\* section in mode scenario_risk and of the fragility section in mode
\* scenario_damage, never those of the other kind, and always sets
\* _assetcollection_oid from exposure.exposure_file
C4_ForeignKeysByMode ==
    ParseOk =>
        /\ calc.calculation_mode = scenario_risk =>
             /\ FkAttached(pre["vulnerability"], VULNERABILITY_FK_MAPPING)
             /\ DOMAIN calc.fk \cap FkFields(FRAGILITY_FK_MAPPING) = {}
        /\ calc.calculation_mode = scenario_damage =>
             /\ FkAttached(pre["fragility"], FRAGILITY_FK_MAPPING)
             /\ DOMAIN calc.fk \cap FkFields(VULNERABILITY_FK_MAPPING) = {}
        /\ calc.assetcollection_oid = GetOption(pre["exposure"], exposure_file)

\* a scenario_risk job with two vulnerability references and a fragility
\* section that is to be ignored
C4_Witness ==
    /\ ParseOk
    /\ calc.calculation_mode = scenario_risk
    /\ "fragility" \in DOMAIN pre
    /\ Len(pre["vulnerability"]) = 2
    /\ "_structuralvulnerabilitymodel_oid" \in DOMAIN calc.fk
    /\ calc.fk["_structuralvulnerabilitymodel_oid"] = <<"7">>
    /\ calc.assetcollection_oid = <<"1">>

Extracted == {<<"calculation_mode">>, <<"description">>, <<"aggregate_by">>}

SettingsOf(cfg) ==
    UNION {{<<s, i>> : i \in {n \in 1..Len(cfg[s]) : cfg[s][n].k \notin Extracted}} :
            s \in DOMAIN cfg \ {"vulnerability", "exposure", "hazard", "fragility"}}

C8_ConfigUnchanged == job = orig

\* ------------------------------------------------------------------------
\* parse_vulnerability: element texts are sequences of characters
\* ------------------------------------------------------------------------
Whitespace == {" ", "\n"}

FirstIn(t, S) == CHOOSE i \in 1..Len(t) : t[i] \in S /\ \A j \in 1..(i - 1) : t[j] \notin S

\* every character of S is a separator of its own: two in a row enclose an
\* empty string
RECURSIVE SplitOn(_, _)
SplitOn(t, S) ==
    IF \A i \in 1..Len(t) : t[i] \notin S THEN <<t>>
    ELSE LET i == FirstIn(t, S)
         IN <<SubSeq(t, 1, i - 1)>> \o SplitOn(SubSeq(t, i + 1, Len(t)), S)

\* str.split(' ') as called at parsers.py 133-135
SplitSpace(t) == SplitOn(t, {" "})

\* str.split(): the maximal runs of non-whitespace characters
SplitWhitespace(t) == SelectSeq(SplitOn(t, Whitespace), LAMBDA x : x # <<>>)

Min(a, b) == IF a < b THEN a ELSE b

\* zip(imls, meanLRs, covLRs): as long as the shortest of the three
Zip3(a, b, c) ==
    [k \in 1..Min(Len(a), Min(Len(b), Len(c))) |->
        [intensitymeasurelevel |-> a[k], mean |-> b[k], coefficientofvariation |-> c[k]]]

\* parsers.py 127-143: one vulnerabilityFunction element
ParseFunction(vF) ==
    [taxonomy_concept |-> vF.id,
     distribution |-> vF.dist,
     intensitymeasuretype |-> vF.imt,
     lossratios |-> Zip3(SplitSpace(vF.imls), SplitSpace(vF.meanLRs), SplitSpace(vF.covLRs))]

\* parsers.py 107-145, the vulnerabilityFunction elements in document order
parse_vulnerability(d) == [i \in 1..Len(d) |-> ParseFunction(d[i])]

\* ------------------------------------------------------------------------
\* SpecVuln: one vulnerability document is parsed
\* ------------------------------------------------------------------------
RECURSIVE Join(_, _)
Join(toks, sep) ==
    IF Len(toks) = 0 THEN <<>>
    ELSE IF Len(toks) = 1 THEN toks[1]
    ELSE toks[1] \o sep \o Join(Tail(toks), sep)

Separators == {<<" ">>, <<" ", " ">>, <<"\n">>}

\* the texts of one to MaxTokens tokens joined by one of the separators
Texts(Chars, Seps) ==
    {Join(toks, sep) : toks \in SeqsUpTo({<<c>> : c \in Chars}, MaxTokens) \ {<<>>},
                       sep \in Seps}

FunctionElements ==
    [id : {"RC", "W"}, dist : {"LN"}, imt : {"PGA"},
     imls : Texts({"1", "2"}, Separators),
     meanLRs : Texts({"3"}, Separators),
     covLRs : Texts({"5"}, {<<" ">>})]

VulnInit ==
    /\ doc \in SeqsUpTo(FunctionElements, MaxFuns)
    /\ vmodel = <<>>
    /\ vstage = "doc"
    /\ JobIdle
    /\ AssetsIdle

ParseVulnerability ==
    /\ vstage = "doc"
    /\ vmodel' = parse_vulnerability(doc)
    /\ vstage' = "parsed"
    /\ UNCHANGED <<doc, jobVars, assetVars>>

VulnNext == ParseVulnerability

SpecVuln == VulnInit /\ [][VulnNext]_vars

\* ------------------------------------------------------------------------
\* Claims checked under SpecVuln
\* ------------------------------------------------------------------------
TokenCounts(vF) ==
    <<Len(SplitWhitespace(vF.imls)), Len(SplitWhitespace(vF.meanLRs)),
      Len(SplitWhitespace(vF.covLRs))>>

EqualCounts(vF) ==
    TokenCounts(vF)[1] = TokenCounts(vF)[2] /\ TokenCounts(vF)[2] = TokenCounts(vF)[3]

\* C3: parse_vulnerability returns no model for a document in which a
\* function's imls, meanLRs and covLRs token counts differ (it raises a
\* FormatError instead)
C3_MismatchRaises ==
    vstage = "parsed" => \A i \in 1..Len(doc) : EqualCounts(doc[i])

\* C9: a function whose three texts hold n whitespace-separated tokens each
\* is decoded to n loss ratios, the k-th made of the k-th tokens, functions
\* in document order, whichever whitespace separates the tokens
C9_PositionalZip ==
    vstage = "parsed" =>
        /\ Len(vmodel) = Len(doc)
        /\ \A i \in 1..Len(doc) :
             /\ vmodel[i].taxonomy_concept = doc[i].id
             /\ EqualCounts(doc[i]) =>
                  /\ Len(vmodel[i].lossratios) = TokenCounts(doc[i])[1]
                  /\ \A k \in 1..TokenCounts(doc[i])[1] :
                       /\ vmodel[i].lossratios[k].intensitymeasurelevel =
                            SplitWhitespace(doc[i].imls)[k]
                       /\ vmodel[i].lossratios[k].mean =
                            SplitWhitespace(doc[i].meanLRs)[k]
                       /\ vmodel[i].lossratios[k].coefficientofvariation =
                            SplitWhitespace(doc[i].covLRs)[k]

\* ------------------------------------------------------------------------
\* Data frames: an index and a sequence of named columns of cell values
\* ------------------------------------------------------------------------
NaN == <<"NaN", 0>>
Zero == <<"0", 0>>

\* parsers.py 9-18, an ordered dict as its sequence of (key, value) pairs
ASSETS_COLS_MAPPING ==
    << <<"taxonomy", "taxonomy_concept">>,
       <<"number", "buildingcount">>,
       <<"contents", "contentsvalue">>,
       <<"day", "dayoccupancy">>,
       <<"night", "nightoccupancy">>,
       <<"transit", "transitoccupancy">>,
       <<"structural", "structuralvalue">>,
       <<"nonstructural", "nonstructuralvalue">>,
       <<"business_interruption", "businessinterruptionvalue">> >>

\* parsers.py 49-50
lonlat == << <<"lon", "longitude">>, <<"lat", "latitude">> >>

DictKeys(d) == [i \in 1..Len(d) |-> d[i][1]]

DictValues(d) == [i \in 1..Len(d) |-> d[i][2]]

DictGet(d, k) == d[CHOOSE i \in 1..Len(d) : d[i][1] = k][2]

\* {**a, **b}: a key of b already in a keeps its place and takes b's value
RECURSIVE DictMerge(_, _)
DictMerge(a, b) ==
    IF b = <<>> THEN a
    ELSE LET kv == Head(b)
             merged == IF kv[1] \in Range(DictKeys(a))
                       THEN [i \in 1..Len(a) |-> IF a[i][1] = kv[1] THEN kv ELSE a[i]]
                       ELSE Append(a, kv)
         IN DictMerge(merged, Tail(b))

Names(df) == [i \in 1..Len(df.cols) |-> df.cols[i].name]

InFrame(name, df) == name \in Range(Names(df))

\* DataFrame.rename(columns=d)
Rename(df, d) ==
    [df EXCEPT !.cols = [i \in 1..Len(df.cols) |->
        IF df.cols[i].name \in Range(DictKeys(d))
        THEN [df.cols[i] EXCEPT !.name = DictGet(d, df.cols[i].name)]
        ELSE df.cols[i]]]

\* parsers.py 52-57: an external name is renamed only while its internal
\* name is not a column yet
RenameMap(df) ==
    SelectSeq(ASSETS_COLS_MAPPING \o lonlat,
              LAMBDA kv : InFrame(kv[1], df) /\ ~InFrame(kv[2], df))

\* latitude and longitude forgotten among the valid columns
valid_cols_without_lonlat(tags) == DictValues(ASSETS_COLS_MAPPING) \o tags

\* the declared tag names forgotten among the valid columns
valid_cols_without_tags(tags) == DictValues(ASSETS_COLS_MAPPING) \o DictValues(lonlat)

\* parsers.py 59-60
valid_cols(tags) == DictValues(ASSETS_COLS_MAPPING) \o tags \o DictValues(lonlat)

\* parsers.py 62: df.drop(columns=df.columns.difference(valid))
DropInvalid(df, valid) ==
    [df EXCEPT !.cols = SelectSeq(df.cols, LAMBDA c : c.name \in Range(valid))]

\* parsers.py 36-64, on the frame pd.read_csv(file, index_col='id') returns
parse_assets(df, tags) == DropInvalid(Rename(df, RenameMap(df)), valid_cols(tags))

\* ------------------------------------------------------------------------
\* The stored assets and assets_to_dataframe
\* ------------------------------------------------------------------------
HasCol(df, name) == \E i \in 1..Len(df.cols) : df.cols[i].name = name

Col(df, name) == df.cols[CHOOSE i \in 1..Len(df.cols) : df.cols[i].name = name]

CellOr(df, name, r, default) ==
    IF HasCol(df, name) THEN Col(df, name).vals[r] ELSE default

InternalNames == DictValues(ASSETS_COLS_MAPPING)

\* the rows of a decoded table stored as Asset objects: a field without a
\* column or without a value is None, a tag without a value is not attached
StoreAssets(df, tags) ==
    [r \in 1..Len(df.index) |->
        [oid |-> df.index[r],
         fields |-> [c \in Range(InternalNames) |-> CellOr(df, c, r, NaN)],
         site |-> [longitude |-> CellOr(df, "longitude", r, NaN),
                   latitude |-> CellOr(df, "latitude", r, NaN)],
         aggregationtags |->
            LET present == SelectSeq(tags, LAMBDA t : CellOr(df, t, r, NaN) # NaN)
            IN [i \in 1..Len(present) |->
                    [type |-> present[i], name |-> Col(df, present[i]).vals[r]]]]]

\* input.py 87: pd.DataFrame([x._asdict() for x in assets]).set_index('_oid')
assets_df(as) ==
    [index |-> [r \in 1..Len(as) |-> as[r].oid],
     cols |-> [i \in 1..Len(InternalNames) |->
                [name |-> InternalNames[i],
                 vals |-> [r \in 1..Len(as) |-> as[r].fields[InternalNames[i]]]]]
              \o <<[name |-> "_assetcollection_oid",
                    vals |-> [r \in 1..Len(as) |-> <<"ac", 1>>]]>>]

\* input.py 89-90
sites_df(as) ==
    <<[name |-> "longitude", vals |-> [r \in 1..Len(as) |-> as[r].site.longitude]],
      [name |-> "latitude", vals |-> [r \in 1..Len(as) |-> as[r].site.latitude]]>>

\* the keys of a list of dicts in the order they are first met
RECURSIVE FirstSeen(_, _)
FirstSeen(keys, seen) ==
    IF keys = <<>> THEN seen
    ELSE FirstSeen(Tail(keys),
                   IF Head(keys) \in Range(seen) THEN seen ELSE Append(seen, Head(keys)))

RECURSIVE Flatten(_)
Flatten(ss) == IF ss = <<>> THEN <<>> ELSE Head(ss) \o Flatten(Tail(ss))

TagTypes(as) ==
    FirstSeen(Flatten([r \in 1..Len(as) |->
                [i \in 1..Len(as[r].aggregationtags) |-> as[r].aggregationtags[i].type]]),
              <<>>)

\* {tag.type: tag.name for tag in asset.aggregationtags}[type]
TagName(asset, type) ==
    LET at == {i \in 1..Len(asset.aggregationtags) : asset.aggregationtags[i].type = type}
    IN IF at = {} THEN NaN
       ELSE asset.aggregationtags[CHOOSE i \in at : \A j \in at : j <= i].name

\* input.py 92-94
aggregationtags_df(as) ==
    [i \in 1..Len(TagTypes(as)) |->
        [name |-> TagTypes(as)[i],
         vals |-> [r \in 1..Len(as) |-> TagName(as[r], TagTypes(as)[i])]]]

\* input.py 101-103
selector(as) ==
    DictMerge(DictMerge(<< <<"longitude", "lon">>, <<"latitude", "lat">> >>,
                        [i \in 1..Len(ASSETS_COLS_MAPPING) |->
                            <<ASSETS_COLS_MAPPING[i][2], ASSETS_COLS_MAPPING[i][1]>>]),
              [i \in 1..Len(TagTypes(as)) |-> <<TagTypes(as)[i], TagTypes(as)[i]>>])

\* df[[labels]]: for each label in turn, the columns that carry it
Select(df, labels) ==
    [df EXCEPT !.cols =
        Flatten([i \in 1..Len(labels) |-> SelectSeq(df.cols, LAMBDA c : c.name = labels[i])])]

AllNaN(c) == \A r \in 1..Len(c.vals) : c.vals[r] = NaN

\* the all-missing columns kept
keep_all_columns(df) == df

\* .dropna(axis=1, how='all')
DropNaColumns(df) == [df EXCEPT !.cols = SelectSeq(df.cols, LAMBDA c : ~AllNaN(c))]

\* .fillna(0)
FillNa(df) ==
    [df EXCEPT !.cols = [i \in 1..Len(df.cols) |->
        [df.cols[i] EXCEPT !.vals = [r \in 1..Len(df.cols[i].vals) |->
            IF df.cols[i].vals[r] = NaN THEN Zero ELSE df.cols[i].vals[r]]]]]

\* input.py 82-110, for a non-empty list of assets
assets_to_dataframe(as) ==
    LET a == assets_df(as)
        result_df == [index |-> a.index,
                      cols |-> a.cols \o sites_df(as) \o aggregationtags_df(as)]
    IN FillNa(DropNaColumns(
            Select(Rename(result_df, selector(as)), DictValues(selector(as)))))

\* ------------------------------------------------------------------------
\* SpecDecode and SpecAssets: an asset table is decoded, decoded again,
\* stored and encoded
\* ------------------------------------------------------------------------
Universe == <<"taxonomy", "taxonomy_concept", "number", "lon", "longitude", "canton", "zip">>

\* the table of n rows whose columns are S, a cell of column c holding a
\* value where m[c] says so and nothing elsewhere
Table(n, S, m) ==
    LET names == SelectSeq(Universe, LAMBDA x : x \in S)
    IN [index |-> [r \in 1..n |-> r],
        cols |-> [i \in 1..Len(names) |->
                    [name |-> names[i],
                     vals |-> [r \in 1..n |->
                        IF m[names[i]][r] THEN <<names[i], r>> ELSE NaN]]]]

ColumnSets == {T \in SUBSET Range(Universe) : Cardinality(T) <= MaxCols}

AssetTagLists == {<<>>, <<"canton">>, <<"zip", "canton">>}

DecodeTagLists == AssetTagLists \cup {<<"lon">>, <<"taxonomy", "canton">>}

NoFrame == [index |-> <<>>, cols |-> <<>>]

AssetsInit(TagLists) ==
    /\ \E n \in 0..MaxAssets : \E S \in ColumnSets : \E m \in [S -> [1..n -> BOOLEAN]] :
            csv = Table(n, S, m)
    /\ tagnames \in TagLists
    /\ parsed = NoFrame
    /\ reparsed = NoFrame
    /\ assets = <<>>
    /\ encoded = NoFrame
    /\ astage = "csv"
    /\ JobIdle
    /\ VulnIdle

\* parse_assets(f, tagnames) on the asset csv
ParseAssets ==
    /\ astage = "csv"
    /\ parsed' = parse_assets(csv, tagnames)
    /\ astage' = "parsed"
    /\ UNCHANGED <<csv, tagnames, reparsed, assets, encoded, jobVars, vulnVars>>

\* parse_assets on its own output
ParseAgain ==
    /\ astage = "parsed"
    /\ reparsed' = parse_assets(parsed, tagnames)
    /\ astage' = "reparsed"
    /\ UNCHANGED <<csv, tagnames, parsed, assets, encoded, jobVars, vulnVars>>

\* the decoded rows are stored as the assets of a collection
Store ==
    /\ astage = "parsed"
    /\ assets' = StoreAssets(parsed, tagnames)
    /\ astage' = "stored"
    /\ UNCHANGED <<csv, tagnames, parsed, reparsed, encoded, jobVars, vulnVars>>

\* assets_to_dataframe(asset_collection.assets); an empty list has no
\* '_oid' column to index by
Encode ==
    /\ astage = "stored"
    /\ IF assets = <<>>
       THEN encoded' = NoFrame /\ astage' = "KeyError"
       ELSE encoded' = assets_to_dataframe(assets) /\ astage' = "encoded"
    /\ UNCHANGED <<csv, tagnames, parsed, reparsed, assets, jobVars, vulnVars>>

DecodeInit == AssetsInit(DecodeTagLists)

DecodeNext == ParseAssets \/ ParseAgain

SpecDecode == DecodeInit /\ [][DecodeNext]_vars

RoundTripInit == AssetsInit(AssetTagLists)

RoundTripNext == ParseAssets \/ Store \/ Encode

SpecAssets == RoundTripInit /\ [][RoundTripNext]_vars

\* ------------------------------------------------------------------------
\* Claims checked under SpecDecode and SpecAssets
\* ------------------------------------------------------------------------
ExternalNames ==
    <<"taxonomy", "number", "contents", "day", "night", "transit", "structural",
      "nonstructural", "business_interruption">>

ExternalColumns == Range(ExternalNames) \cup {"lon", "lat"}

\* C6: parse_assets applied to its own output returns the identical table,
\* and a table without external names comes back with no column renamed:
\* every column of the result is a column of the input, name and values
C6_DecodeIdempotent ==
    /\ astage = "reparsed" => reparsed = parsed
    /\ (astage \in {"parsed", "reparsed"} /\
        \A i \in 1..Len(csv.cols) : csv.cols[i].name \notin ExternalColumns) =>
            \A i \in 1..Len(parsed.cols) : parsed.cols[i] \in Range(csv.cols)

\* a table with taxonomy_concept and no taxonomy, and a table that was
\* renamed by the first pass
C6_Witness ==
    /\ astage = "reparsed"
    /\ Len(csv.index) = 2
    /\ Names(csv) = <<"taxonomy_concept", "canton">>
    /\ tagnames = <<"canton">>
    /\ Names(reparsed) = <<"taxonomy_concept", "canton">>
    /\ Col(reparsed, "taxonomy_concept").vals[2] = <<"taxonomy_concept", 2>>

ExternalOnly ==
    \A i \in 1..Len(csv.cols) :
        csv.cols[i].name \in ExternalColumns \cup Range(tagnames)

ZeroFilled(v) == IF v = NaN THEN Zero ELSE v

Held(asset, name) ==
    IF name = "lon" THEN asset.site.longitude
    ELSE IF name = "lat" THEN asset.site.latitude
    ELSE IF name \in Range(ExternalNames)
         THEN asset.fields[DictGet(ASSETS_COLS_MAPPING, name)]
    ELSE IF \E i \in 1..Len(asset.aggregationtags) : asset.aggregationtags[i].type = name
         THEN asset.aggregationtags[CHOOSE i \in 1..Len(asset.aggregationtags) :
                                        asset.aggregationtags[i].type = name].name
    ELSE NaN

HeldBySome(name) == \E r \in 1..Len(assets) : Held(assets[r], name) # NaN

AttachedTagTypes ==
    UNION {{assets[r].aggregationtags[i].type : i \in 1..Len(assets[r].aggregationtags)} :
            r \in 1..Len(assets)}

\* C10: the table assets_to_dataframe returns for a non-empty list of assets
\* has no missing value: a column no asset has a value for is absent, an
\* asset without a value has 0; lon, lat, then the external names in
\* declaration order, then the tag columns
C10_NoMissingValue ==
    astage = "encoded" =>
        LET core == SelectSeq(<<"lon", "lat">> \o ExternalNames, HeldBySome)
            names == Names(encoded)
            tagcols == SubSeq(names, Len(core) + 1, Len(names))
        IN /\ Len(names) >= Len(core)
           /\ SubSeq(names, 1, Len(core)) = core
           /\ Range(tagcols) = AttachedTagTypes
           /\ Cardinality(Range(names)) = Len(names)
           /\ \A j \in 1..Len(names) : \A r \in 1..Len(assets) :
                /\ encoded.cols[j].vals[r] # NaN
                /\ encoded.cols[j].vals[r] = ZeroFilled(Held(assets[r], names[j]))

\* two assets, a tag category only the second has, a field neither has
C10_Witness ==
    /\ astage = "encoded"
    /\ Len(assets) = 2
    /\ assets[1].aggregationtags = <<>>
    /\ Len(assets[2].aggregationtags) = 1
    /\ assets[1].fields["buildingcount"] = NaN /\ assets[2].fields["buildingcount"] = NaN
    /\ assets[1].site.longitude # NaN /\ assets[2].site.longitude = NaN
    /\ Names(encoded) = <<"lon", "canton">>
    /\ Col(encoded, "canton").vals[1] = Zero
    /\ Col(encoded, "lon").vals[2] = Zero

====
